---- MODULE Spec2Model ----
(***************************************************************************)
(* Model of ko's resolution pipeline:                                      *)
(*   pkg/resolve/resolve.go    ImageReferences, refsFromDoc                *)
(*   pkg/commands/resolver.go  resolveFilesToWriter, resolveFile,          *)
(*                             makeBuilder, makePublisher                  *)
(* A string is modelled as a sequence of tokens: " " is one whitespace     *)
(* character, "ko://" is the reference prefix, every other token is a      *)
(* piece of text without whitespace that does not start with the prefix.   *)
(***************************************************************************)
EXTENDS Integers, Sequences, FiniteSets, TLC

\* ------------------------------------------------------------------------
\* Bounds of the model
\* ------------------------------------------------------------------------
MaxFiles == 2        \* filenames the enumerator sends
MaxSlots == 3        \* filenames the loop accepts in all (enumerated + re-sent)
MaxNotify == 1       \* notifications the change notifier delivers
MaxFailures == 1     \* build / publish / notifier failures injected in one run
MaxRenotify == 2     \* notifications delivered in the runs about invalidation
MaxRows == 2         \* rows of the table a test of IsSupportedReference runs

\* ------------------------------------------------------------------------
\* Strings
\* ------------------------------------------------------------------------
koPrefix == "ko://"

\* the scheme of a reference to the tests of a package
koTestPrefix == "ko-test://"

RECURSIVE TrimLeft(_)
TrimLeft(s) == IF s # <<>> /\ Head(s) = " " THEN TrimLeft(Tail(s)) ELSE s

RECURSIVE TrimRight(_)
TrimRight(s) ==
    IF s # <<>> /\ s[Len(s)] = " " THEN TrimRight(SubSeq(s, 1, Len(s) - 1)) ELSE s

\* strings.TrimSpace
TrimSpace(s) == TrimRight(TrimLeft(s))

\* strings.HasPrefix
HasPrefix(s, p) == s # <<>> /\ Head(s) = p

\* strings.TrimPrefix
TrimPrefix(s, p) == IF HasPrefix(s, p) THEN Tail(s) ELSE s

\* concatenation of a sequence of sequences
RECURSIVE Flatten(_)
Flatten(ss) == IF ss = <<>> THEN <<>> ELSE Head(ss) \o Flatten(Tail(ss))

\* the elements of a sequence
Range(s) == {s[i] : i \in 1..Len(s)}

\* ------------------------------------------------------------------------
\* The inputs: import paths, files and their documents
\* ------------------------------------------------------------------------
\* the import paths of the module that name a main package: the builder can
\* build them
Supported == {<<"a">>, <<"b">>}

\* the import paths of the module that name a package with tests and no main
TestOnly == {<<"t">>}

\* a builder for which a scheme makes no difference
IsSupportedReferenceAnyScheme(isStrict, s) ==
    (IF s # <<>> /\ Head(s) \in {koPrefix, koTestPrefix} THEN Tail(s) ELSE s) \in Supported

\* build.Interface.IsSupportedReference of the Go builder, made with
\* WithStrictMode (isStrict) or without. A bare import path is supported if
\* it names a main package of the module. A builder in strict mode also
\* takes a reference with a scheme: ko:// for a main package, ko-test:// for
\* a package that has only tests. Any other path (one that does not exist,
\* lies outside the module, or has neither main nor tests) is not supported.
IsSupportedReference(isStrict, s) ==
    IF HasPrefix(s, koTestPrefix) THEN isStrict /\ Tail(s) \in TestOnly
    ELSE IF HasPrefix(s, koPrefix) THEN isStrict /\ Tail(s) \in Supported
    ELSE s \in Supported

\* a yaml scalar node: its short tag and its value
StrNode(v) == [tag |-> "!!str", Value |-> v]
IntNode(v) == [tag |-> "!!int", Value |-> v]

\* one parsed yaml document: the label the selector looks at, and its scalars
Doc(l, ns) == [label |-> l, nodes |-> ns]

Files == {"f1", "f2", "f3"}

\* ioutil.ReadFile followed by the yaml decoder
FileDocs(f) ==
    CASE f = "f1" -> << Doc("keep", <<StrNode(<<"ko://", "a">>), StrNode(<<"ko://", "b">>)>>) >>
      [] f = "f2" -> << Doc("keep", <<StrNode(<<"ko://", "a">>), StrNode(<<" ", "a", " ">>), IntNode(<<"a">>)>>),
                        Doc("other", <<StrNode(<<"ko://", "b">>), StrNode(<<"ko://", "x">>)>>),
                        Doc("keep", <<StrNode(<<"a">>), StrNode(<<" ", "ko://", "a">>), StrNode(<<"x">>),
                                       StrNode(<<" ", "ko://", "x">>)>>) >>
      [] f = "f3" -> << Doc("keep", <<StrNode(<<"ko://", "b">>), StrNode(<<"ko://", "x">>)>>) >>

\* resolve.MatchesSelector for the selector app=keep
MatchesSelector(doc) == doc.label = "keep"

\* a resolveFile whose `continue` is taken by the matching documents
RECURSIVE SelectDocsInverted(_, _)
SelectDocsInverted(docs, sel) ==
    IF docs = <<>> THEN <<>>
    ELSE IF sel /\ MatchesSelector(Head(docs))
         THEN SelectDocsInverted(Tail(docs), sel)
         ELSE <<Head(docs)>> \o SelectDocsInverted(Tail(docs), sel)

\* the documents resolveFile keeps: all of them without a selector, the
\* matching ones with a selector (a non-matching document hits `continue`)
RECURSIVE SelectDocs(_, _)
SelectDocs(docs, sel) ==
    IF docs = <<>> THEN <<>>
    ELSE IF sel /\ ~MatchesSelector(Head(docs))
         THEN SelectDocs(Tail(docs), sel)
         ELSE <<Head(docs)>> \o SelectDocs(Tail(docs), sel)

\* ------------------------------------------------------------------------
\* The reference walker and the discover phase of ImageReferences
\* ------------------------------------------------------------------------
\* yit.StringValue
StringValue(node) == node.tag = "!!str"

\* yit.WithPrefix(koPrefix): tests the node's value as written
WithPrefix(node) == HasPrefix(node.Value, koPrefix)

\* refsFromDoc: the positions of the nodes of document d the walker yields
refsFromDoc(docs, d, isStrict) ==
    LET ns == docs[d].nodes
        Yield(n) == StringValue(ns[n]) /\ (isStrict => WithPrefix(ns[n]))
    IN  SelectSeq([n \in 1..Len(ns) |-> <<d, n>>], LAMBDA h : Yield(h[2]))

\* the node handles of all documents, in document order
Handles(docs, isStrict) ==
    Flatten([d \in 1..Len(docs) |-> refsFromDoc(docs, d, isStrict)])

NodeAt(docs, h) == docs[h[1]].nodes[h[2]]

NoError == <<>>

Min(S) == CHOOSE x \in S : \A y \in S : x <= y

\* ref := strings.TrimSpace(node.Value)
RefOf(node) == TrimSpace(node.Value)

\* a discover loop that consults the builder with ref, prefix and all
BareOfPrefixed(node) == RefOf(node)

\* tref := strings.TrimPrefix(ref, koPrefix)
BareOf(node) == TrimPrefix(RefOf(node), koPrefix)

\* a discover loop without the strict branch: an unsupported reference is skipped
StrictStopNever(isStrict, node) == FALSE

\* a discover loop whose else branch does not look at the strict flag
StrictStopAlways(isStrict, node) == ~IsSupportedReference(isStrict, BareOf(node))

\* the loop returns the strict error at this node
StrictStop(isStrict, node) == isStrict /\ ~IsSupportedReference(isStrict, BareOf(node))

\* the loop over the yielded nodes hs: it stops at the first node that is a
\* strict violation; refs maps each supported bare reference met until then
\* to its nodes, in the order they were met, and asked lists what
\* builder.IsSupportedReference was called with
ScanRefs(hs, docs, isStrict) ==
    LET stops == {k \in 1..Len(hs) : StrictStop(isStrict, NodeAt(docs, hs[k]))}
        stop == IF stops = {} THEN Len(hs) + 1 ELSE Min(stops)
        seen == SelectSeq(SubSeq(hs, 1, stop - 1),
                          LAMBDA h : IsSupportedReference(isStrict, BareOf(NodeAt(docs, h))))
    IN  [err |-> IF stop <= Len(hs)
                 THEN <<"strict", RefOf(NodeAt(docs, hs[stop]))>>
                 ELSE NoError,
         refs |-> [tref \in {BareOf(NodeAt(docs, h)) : h \in Range(seen)} |->
                      SelectSeq(seen, LAMBDA h : BareOf(NodeAt(docs, h)) = tref)],
         asked |-> [k \in 1..Min({stop, Len(hs)}) |-> BareOf(NodeAt(docs, hs[k]))]]

EmptyIndex == [r \in {} |-> <<>>]

Discover(docs, isStrict) == ScanRefs(Handles(docs, isStrict), docs, isStrict)

\* resolveFile from reading the file to the end of the discover phase, for
\* every file and setting: the documents kept and what Discover makes of them
Discovered ==
    [f \in Files, st \in BOOLEAN, sel \in BOOLEAN |->
        LET docs == SelectDocs(FileDocs(f), sel)
            d == Discover(docs, st)
        IN  [docs |-> docs, err |-> d.err, refs |-> d.refs, asked |-> d.asked]]

\* ------------------------------------------------------------------------
\* Build, publish, rewrite and encode
\* ------------------------------------------------------------------------
GenName == <<"g1", "g2", "g3", "g4", "g5", "g6", "g7", "g8">>

\* the artifact the underlying builder produces on its gen-th build of ref
Image(ref, gen) == [ref |-> ref, gen |-> gen]

\* digest.String() of the reference the external publisher returns for img
DigestString(img) == <<"D">> \o img.ref \o <<GenName[img.gen]>>

\* a rewrite phase that writes the digest to the first node of each reference
RewriteFirst(docs, refs, digest) ==
    LET Val(d, n) ==
            LET hit == {r \in DOMAIN refs : <<d, n>> = refs[r][1]}
            IN  IF hit = {} THEN docs[d].nodes[n].Value
                ELSE digest[CHOOSE r \in hit : TRUE]
    IN  [d \in 1..Len(docs) |->
            [docs[d] EXCEPT !.nodes =
                [n \in 1..Len(docs[d].nodes) |->
                    [docs[d].nodes[n] EXCEPT !.Value = Val(d, n)]]]]

\* the rewrite phase: every node recorded in refs gets the digest of its ref
Rewrite(docs, refs, digest) ==
    LET Val(d, n) ==
            LET hit == {r \in DOMAIN refs : <<d, n>> \in Range(refs[r])}
            IN  IF hit = {} THEN docs[d].nodes[n].Value
                ELSE digest[CHOOSE r \in hit : TRUE]
    IN  [d \in 1..Len(docs) |->
            [docs[d] EXCEPT !.nodes =
                [n \in 1..Len(docs[d].nodes) |->
                    [docs[d].nodes[n] EXCEPT !.Value = Val(d, n)]]]]

\* the text of one document: one line per scalar
EncodeDoc(doc) == [n \in 1..Len(doc.nodes) |-> doc.nodes[n].Value]

\* yaml.Encoder over the documents: a "---" line between two documents
RECURSIVE Encode(_)
Encode(docs) ==
    IF docs = <<>> THEN <<>>
    ELSE IF Len(docs) = 1 THEN EncodeDoc(docs[1])
    ELSE EncodeDoc(docs[1]) \o << <<"---">> >> \o Encode(Tail(docs))

\* the delimiter the loop writes after each body
Delimiter == << <<"\n---\n">> >>

\* ------------------------------------------------------------------------
\* State
\* ------------------------------------------------------------------------
VARIABLES
    watch,      \* fo.Watch
    strict,     \* sto.Strict
    selector,   \* so.Selector # ""
    todo,       \* filenames options.EnumerateFiles still has to send
    fs,         \* the loop's fs: "open", or "nil" once it saw the channel closed
    futures,    \* the FIFO of result futures, as slot numbers
    tasks,      \* one resolver goroutine per slot, in arrival order
    out,        \* bytes written to the output sink
    written,    \* slots whose body was written, in write order
    outClosed,  \* out.Close() has run
    taken,      \* the slot whose body b the loop holds and has not written, 0 if none
    loop,       \* "run", "returned", or "fatal" after log.Fatalf
    cache,      \* build.Caching: bare reference -> number of its future, 0 if none
    futs,       \* every Build Future ever created
    pubCache,   \* publish.Caching: bare reference -> its entry
    pubCalls,   \* calls received by the external publisher, per reference
    sm,         \* filename -> import paths recorded by its last resolution
    graph,      \* import paths registered with the notifier (g.Add)
    cb,         \* the notifier's callback
    notifs,     \* notifications delivered
    failures,   \* failures injected so far
    giveIp,     \* the reference a test hands to IsSupportedReference
    sr,         \* what IsSupportedReference returned for it, <<>> before the call
    row         \* the row of its table the test is at, 0 outside a test

vars == <<watch, strict, selector, todo, fs, futures, tasks, out, written,
          outClosed, taken, loop, cache, futs, pubCache, pubCalls, sm, graph, cb,
          notifs, failures, giveIp, sr, row>>

config == <<watch, strict, selector>>
builders == <<cache, futs>>
publishers == <<pubCache, pubCalls>>
sink == <<out, written, outClosed, taken>>
notifier == <<graph, cb, notifs>>
tests == <<giveIp, sr, row>>

\* bo.ConcurrentBuilds, the capacity of the build limiter
ConcurrentBuilds == 1

NoDigest == <<>>

\* publish.Caching: the entry of a reference that was never published
NoEntry == [state |-> "absent", img |-> <<>>]
NoKey == "-"

IdleCb == [phase |-> "idle", S |-> {}, start |-> {}, visited |-> {},
           key |-> NoKey, value |-> <<>>, idx |-> 0, mark |-> 0, n |-> 0]

\* sequences of at most n filenames, at least one
FileSeqs(n) == UNION {[1..k -> Files] : k \in 1..n}

\* the runs under --watch the model explores: no selector, and one file, or
\* in strict mode two different files the first of which has a reference
\* that is not supported
WatchInput(st, sel, fns) ==
    /\ ~sel
    /\ IF Len(fns) = 1 THEN TRUE
       ELSE st /\ fns[1] # "f1" /\ fns[2] # fns[1]

\* nothing received, built, published or recorded yet
Idle ==
    /\ fs = "open"
    /\ futures = <<>>
    /\ tasks = <<>>
    /\ out = <<>>
    /\ written = <<>>
    /\ outClosed = FALSE
    /\ taken = 0
    /\ loop = "run"
    /\ cache = [r \in Supported |-> 0]
    /\ futs = <<>>
    /\ pubCache = [r \in Supported |-> NoEntry]
    /\ pubCalls = [r \in Supported |-> 0]
    /\ sm = [f \in {} |-> <<>>]
    /\ graph = {}
    /\ cb = IdleCb
    /\ notifs = 0
    /\ failures = 0
    /\ giveIp = <<>>
    /\ sr = <<>>
    /\ row = 0

Init ==
    /\ watch \in BOOLEAN
    /\ strict \in BOOLEAN
    /\ selector \in BOOLEAN
    /\ todo \in FileSeqs(MaxFiles)
    /\ watch => WatchInput(strict, selector, todo)
    /\ Idle

\* ------------------------------------------------------------------------
\* build.Caching over build.Limiter over the Go builder
\* ------------------------------------------------------------------------
\* number of Build calls the underlying builder has received for ref
BuildCalls(ref) ==
    Cardinality({k \in 1..Len(futs) : futs[k].ref = ref /\ futs[k].state # "pending"})

\* builds the limiter has let through and that have not returned
InFlight == Cardinality({k \in 1..Len(futs) : futs[k].state = "building"})

\* Caching.Build, under its mutex: the valid future of ref, or a new one
CachingBuild(c, fu, ref) ==
    IF c[ref] # 0
    THEN [cache |-> c, futs |-> fu, id |-> c[ref]]
    ELSE [cache |-> [c EXCEPT ![ref] = Len(fu) + 1],
          futs |-> Append(fu, [ref |-> ref, state |-> "pending", gen |-> 0]),
          id |-> Len(fu) + 1]

\* a builder without the caching wrapper: every Build call starts a build
makeBuilderUncached(c, fu, ref) ==
    [cache |-> c,
     futs |-> Append(fu, [ref |-> ref, state |-> "pending", gen |-> 0]),
     id |-> Len(fu) + 1]

\* a builder that starts a new build when the cached one has failed
makeBuilderRetry(c, fu, ref) ==
    IF c[ref] # 0 /\ fu[c[ref]].state = "failed"
    THEN makeBuilderUncached(c, fu, ref)
    ELSE CachingBuild(c, fu, ref)

\* the builder makeBuilder returns: the caching builder around the limiter
makeBuilder(c, fu, ref) == CachingBuild(c, fu, ref)

\* an Invalidate that only forgets a future whose build has succeeded
InvalidateReadyOnly(c, ref) ==
    IF c[ref] # 0 /\ c[ref] \in DOMAIN futs /\ futs[c[ref]].state = "ready"
    THEN [c EXCEPT ![ref] = 0]
    ELSE c

\* Caching.Invalidate: forget the future of ref
Invalidate(c, ref) == [c EXCEPT ![ref] = 0]

\* a builder that makeBuilder did not wrap in a limiter
AdmitsAlways(n) == TRUE

\* build.NewLimiter(innerBuilder, bo.ConcurrentBuilds): with n builds in
\* flight the semaphore has room for one more
Admits(n) == n < ConcurrentBuilds

\* the limiter lets the build of future k through: the Go builder runs it
BuildStart(k) ==
    /\ loop = "run"
    /\ k \in 1..Len(futs)
    /\ futs[k].state = "pending"
    /\ Admits(InFlight)
    /\ futs' = [futs EXCEPT ![k].state = "building",
                            ![k].gen = BuildCalls(futs[k].ref) + 1]
    /\ UNCHANGED <<config, tests, todo, fs, futures, tasks, sink, loop, cache,
                   publishers, sm, notifier, failures>>

\* the Go builder returns: every waiter of future k sees the outcome
BuildFinish(k, ok) ==
    /\ loop = "run"
    /\ k \in 1..Len(futs)
    /\ futs[k].state = "building"
    /\ ~ok => failures < MaxFailures
    /\ futs' = [futs EXCEPT ![k].state = IF ok THEN "ready" ELSE "failed"]
    /\ failures' = IF ok THEN failures ELSE failures + 1
    /\ UNCHANGED <<config, tests, todo, fs, futures, tasks, sink, loop, cache,
                   publishers, sm, notifier>>

\* ------------------------------------------------------------------------
\* The resolver goroutine of one slot: resolveFile, then deliver
\* ------------------------------------------------------------------------
NewTask(f, n, mark, affected) ==
    [f |-> f, pc |-> "start", docs |-> <<>>, refs |-> EmptyIndex,
     sub |-> EmptyIndex, fut |-> EmptyIndex, digest |-> EmptyIndex,
     ImportPaths |-> <<>>, published |-> <<>>, err |-> NoError, b |-> <<>>,
     via |-> n, mark |-> mark, affected |-> affected, asked |-> <<>>,
     added |-> 0]

\* an error handler that only ever logs
lgPrintf(w) == "Printf"

\* an error handler that is always fatal
lgFatalf(w) == "Fatalf"

\* lg: log.Printf under --watch, log.Fatalf otherwise
lg(w) == IF w THEN "Printf" ELSE "Fatalf"

\* a goroutine that returns on an error without the deferred close(ch)
FailUnclosed(i, t) ==
    /\ tasks' = [tasks EXCEPT ![i] = [t EXCEPT !.pc = "exited"]]
    /\ loop' = IF lg(watch) = "Fatalf" THEN "fatal" ELSE loop

\* resolveFile returned err in slot i: log it, then return (closing the slot)
\* or exit the process
Fail(i, t) ==
    /\ tasks' = [tasks EXCEPT ![i] = [t EXCEPT !.pc = "closed"]]
    /\ loop' = IF lg(watch) = "Fatalf" THEN "fatal" ELSE loop

\* resolveFile up to the end of the discover phase of ImageReferences
TaskStart(i) ==
    /\ loop = "run"
    /\ i \in 1..Len(tasks)
    /\ tasks[i].pc = "start"
    /\ LET d == Discovered[tasks[i].f, strict, selector]
           docs == d.docs
       IN  IF d.err # NoError
           THEN Fail(i, [tasks[i] EXCEPT !.err = d.err, !.docs = docs,
                                         !.asked = d.asked])
           ELSE /\ tasks' = [tasks EXCEPT
                      ![i].pc = "resolving",
                      ![i].docs = docs,
                      ![i].asked = d.asked,
                      ![i].refs = d.refs,
                      ![i].sub = [r \in DOMAIN d.refs |-> "go"],
                      ![i].fut = [r \in DOMAIN d.refs |-> 0],
                      ![i].digest = [r \in DOMAIN d.refs |-> NoDigest]]
                /\ loop' = loop
    /\ UNCHANGED <<config, tests, todo, fs, futures, sink, builders, publishers, sm,
                   notifier, failures>>

\* the errgroup goroutine of ref calls builder.Build(ref): the Recorder notes
\* the import path, the caching builder hands out the future to wait on
TaskBuild(i, ref) ==
    /\ loop = "run"
    /\ i \in 1..Len(tasks)
    /\ tasks[i].pc = "resolving"
    /\ ref \in DOMAIN tasks[i].refs
    /\ tasks[i].sub[ref] = "go"
    /\ LET c == makeBuilder(cache, futs, ref)
       IN  /\ cache' = c.cache
           /\ futs' = c.futs
           /\ tasks' = [tasks EXCEPT
                 ![i].sub[ref] = "wait",
                 ![i].fut[ref] = c.id,
                 ![i].ImportPaths = Append(@, ref)]
    /\ UNCHANGED <<config, tests, todo, fs, futures, sink, loop, publishers, sm,
                   notifier, failures>>

\* the first error of the errgroup wins
FirstErr(old, e) == IF old = NoError THEN e ELSE old

\* the future of ref failed: builder.Build returns its error
TaskBuildFailed(i, ref) ==
    /\ loop = "run"
    /\ i \in 1..Len(tasks)
    /\ tasks[i].pc = "resolving"
    /\ ref \in DOMAIN tasks[i].refs
    /\ tasks[i].sub[ref] = "wait"
    /\ futs[tasks[i].fut[ref]].state = "failed"
    /\ tasks' = [tasks EXCEPT
          ![i].sub[ref] = "err",
          ![i].err = FirstErr(@, <<"build", ref>>)]
    /\ UNCHANGED <<config, tests, todo, fs, futures, sink, loop, builders, publishers,
                   sm, notifier, failures>>

\* the entry of a reference for which the external publisher holds img
Publishing(img) == [state |-> "publishing", img |-> img]

\* the digest publish.Caching has stored for ref, NoDigest if it has none
Stored(pc, ref) ==
    IF pc[ref].state = "ready" THEN DigestString(pc[ref].img) ELSE NoDigest

\* publish.Caching.Publish, under the mutex of its map: the entry of ref, or
\* a new one, for which the external publisher is contacted with img
CachingPublish(pc, img, ref) ==
    IF pc[ref].state # "absent"
    THEN [pubCache |-> pc, called |-> FALSE]
    ELSE [pubCache |-> [pc EXCEPT ![ref] = Publishing(img)], called |-> TRUE]

\* a publisher without the caching wrapper: every Publish goes out
makePublisherUncached(pc, img, ref) ==
    [pubCache |-> [pc EXCEPT ![ref] = Publishing(img)], called |-> TRUE]

\* the publisher makePublisher returns: the caching publisher around the
\* daemon or registry publisher
makePublisher(pc, img, ref) == CachingPublish(pc, img, ref)

\* the future of ref is ready: builder.Build returns the image and the
\* goroutine calls publisher.Publish(img, ref), which returns what the entry
\* of ref holds or waits for the publish that is under way
TaskPublish(i, ref) ==
    /\ loop = "run"
    /\ i \in 1..Len(tasks)
    /\ tasks[i].pc = "resolving"
    /\ ref \in DOMAIN tasks[i].refs
    /\ tasks[i].sub[ref] = "wait"
    /\ futs[tasks[i].fut[ref]].state = "ready"
    /\ LET img == Image(ref, futs[tasks[i].fut[ref]].gen)
           p == makePublisher(pubCache, img, ref)
           e == p.pubCache[ref]
       IN  /\ pubCache' = p.pubCache
           /\ pubCalls' = IF p.called THEN [pubCalls EXCEPT ![ref] = @ + 1]
                          ELSE pubCalls
           /\ tasks' =
                CASE e.state = "ready" ->
                         [tasks EXCEPT
                            ![i].sub[ref] = "ok",
                            ![i].digest[ref] = Stored(p.pubCache, ref),
                            ![i].published = Append(@, ref)]
                  [] e.state = "failed" ->
                         [tasks EXCEPT
                            ![i].sub[ref] = "err",
                            ![i].err = FirstErr(@, <<"publish", ref>>),
                            ![i].published = Append(@, ref)]
                  [] OTHER ->
                         [tasks EXCEPT
                            ![i].sub[ref] = "publishing",
                            ![i].published = Append(@, ref)]
    /\ UNCHANGED <<config, tests, todo, fs, futures, sink, loop, builders, sm,
                   notifier, failures>>

\* the external publisher returns for ref: the entry keeps the outcome, the
\* digest of the image or the error
PublishFinish(ref, ok) ==
    /\ loop = "run"
    /\ pubCache[ref].state = "publishing"
    /\ ~ok => failures < MaxFailures
    /\ pubCache' = [pubCache EXCEPT ![ref].state = IF ok THEN "ready" ELSE "failed"]
    /\ failures' = IF ok THEN failures ELSE failures + 1
    /\ UNCHANGED <<config, tests, todo, fs, futures, tasks, sink, loop, builders,
                   pubCalls, sm, notifier>>

\* publisher.Publish returns to the goroutine of ref: the digest, and
\* sm.Store(ref, digest.String()) follows, or the error
TaskPublished(i, ref) ==
    /\ loop = "run"
    /\ i \in 1..Len(tasks)
    /\ tasks[i].pc = "resolving"
    /\ ref \in DOMAIN tasks[i].refs
    /\ tasks[i].sub[ref] = "publishing"
    /\ pubCache[ref].state \in {"ready", "failed"}
    /\ tasks' = IF pubCache[ref].state = "ready"
                THEN [tasks EXCEPT
                        ![i].sub[ref] = "ok",
                        ![i].digest[ref] = Stored(pubCache, ref)]
                ELSE [tasks EXCEPT
                        ![i].sub[ref] = "err",
                        ![i].err = FirstErr(@, <<"publish", ref>>)]
    /\ UNCHANGED <<config, tests, todo, fs, futures, sink, loop, builders, publishers,
                   sm, notifier, failures>>

\* a resolve phase that writes every digest it has to the nodes, whatever
\* errg.Wait returned
ResolvedPartial(t) ==
    LET got == {r \in DOMAIN t.refs : t.digest[r] # NoDigest}
    IN  Rewrite(t.docs, [r \in got |-> t.refs[r]], t.digest)

\* the documents when ImageReferences returns: an error of errg.Wait returns
\* before the rewrite phase
Resolved(t) ==
    IF t.err # NoError THEN t.docs ELSE Rewrite(t.docs, t.refs, t.digest)

\* a Wait that returns as soon as one goroutine is back
WaitedAny(t) == \E r \in DOMAIN t.refs : t.sub[r] \in {"ok", "err"}

\* errg.Wait has every goroutine back
Waited(t) == \A r \in DOMAIN t.refs : t.sub[r] \in {"ok", "err"}

\* a goroutine that stores the recorded import paths before it looks at err
smAfterAlways(m, t) == (t.f :> t.ImportPaths) @@ m

\* sm once resolveFile is back: the return on err comes before
\* sm.Store(f, recordingBuilder.ImportPaths)
smAfter(m, t) ==
    IF t.err # NoError THEN m ELSE (t.f :> t.ImportPaths) @@ m

\* errg.Wait returns; on success the rewrite phase and the encoder run, the
\* goroutine stores the recorded import paths and blocks on ch <- b
TaskFinish(i) ==
    /\ loop = "run"
    /\ i \in 1..Len(tasks)
    /\ tasks[i].pc = "resolving"
    /\ Waited(tasks[i])
    /\ IF tasks[i].err # NoError
       THEN /\ Fail(i, [tasks[i] EXCEPT !.docs = Resolved(tasks[i])])
            /\ sm' = smAfter(sm, tasks[i])
       ELSE /\ tasks' = [tasks EXCEPT
                  ![i].pc = "deliver",
                  ![i].docs = Resolved(tasks[i]),
                  ![i].b = Encode(Resolved(tasks[i]))]
            /\ sm' = smAfter(sm, tasks[i])
            /\ loop' = loop
    /\ UNCHANGED <<config, tests, todo, fs, futures, sink, builders, publishers,
                   notifier, failures>>

\* a goroutine that registers its import paths before it sends the body
PastSendEarly(t) == t.pc \in {"deliver", "adding"}

\* the goroutine is past ch <- b with fo.Watch set
PastSend(t) == t.pc = "adding"

\* after the body was taken, under --watch: the next g.Add(ip) of the loop
\* over the recorded import paths; an error of g.Add is fatal
TaskAdd(i, ok) ==
    /\ loop = "run"
    /\ i \in 1..Len(tasks)
    /\ PastSend(tasks[i])
    /\ tasks[i].added < Len(tasks[i].ImportPaths)
    /\ ~ok => failures < MaxFailures
    /\ LET k == tasks[i].added + 1
       IN  IF ok
           THEN /\ graph' = graph \cup {tasks[i].ImportPaths[k]}
                /\ tasks' = [tasks EXCEPT
                      ![i].added = k,
                      ![i].pc = IF k = Len(tasks[i].ImportPaths) THEN "done" ELSE "adding"]
                /\ loop' = loop
                /\ failures' = failures
           ELSE /\ graph' = graph
                /\ tasks' = tasks
                /\ loop' = "fatal"
                /\ failures' = failures + 1
    /\ UNCHANGED <<config, tests, todo, fs, futures, sink, builders, publishers,
                   sm, cb, notifs>>

\* ------------------------------------------------------------------------
\* The loop of resolveFilesToWriter
\* ------------------------------------------------------------------------
\* a loop that takes the body of whichever slot is ready
SelectableAny(q) == 1..Len(q)

\* bf: the futures the select listens to
Selectable(q) == IF q = <<>> THEN {} ELSE {1}

\* a loop that leaves as soon as the filename channel is closed
DrainedEarly(q, ch) == ch = "nil"

\* the loop leaves when nothing is left to enumerate and to drain
Drained(q, ch) == q = <<>> /\ ch = "nil"

\* case f, ok := <-fs with ok: a filename sent by the enumerator
LoopRecvFile ==
    /\ loop = "run"
    /\ taken = 0
    /\ fs = "open"
    /\ todo # <<>>
    /\ Len(tasks) < MaxSlots
    /\ todo' = Tail(todo)
    /\ tasks' = Append(tasks, NewTask(Head(todo), 0, 0, {}))
    /\ futures' = Append(futures, Len(tasks) + 1)
    /\ UNCHANGED <<config, tests, fs, sink, loop, builders, publishers, sm, notifier,
                   failures>>

\* case f, ok := <-fs with ok: a filename re-sent by the notifier's callback
LoopRecvResent ==
    /\ loop = "run"
    /\ taken = 0
    /\ fs = "open"
    /\ cb.phase = "send"
    /\ Len(tasks) < MaxSlots
    /\ tasks' = Append(tasks, NewTask(cb.key, cb.n, cb.mark,
                                     cb.S \cap Range(cb.value)))
    /\ futures' = Append(futures, Len(tasks) + 1)
    /\ cb' = [cb EXCEPT !.phase = "scan", !.idx = @ + 1]
    /\ UNCHANGED <<config, tests, todo, fs, sink, loop, builders, publishers, sm,
                   graph, notifs, failures>>

\* case f, ok := <-fs with !ok: the enumerator is done and closed the channel
\* (under --watch the channel is left open)
LoopRecvClosed ==
    /\ loop = "run"
    /\ taken = 0
    /\ fs = "open"
    /\ todo = <<>>
    /\ ~watch
    /\ fs' = "nil"
    /\ UNCHANGED <<config, tests, todo, futures, tasks, sink, loop, builders,
                   publishers, sm, notifier, failures>>

\* a write that puts the delimiter in front of the body
outWriteDelimiterFirst(o, b) == o \o Delimiter \o b

\* out.Write(append(b, "\n---\n"...))
outWrite(o, b) == o \o b \o Delimiter

\* the goroutine is past ch <- b: under --watch the g.Add loop is next, if
\* there is an import path to add
AfterSend(t) == IF watch /\ t.ImportPaths # <<>> THEN "adding" ELSE "done"

\* case b, ok := <-bf with ok: the body of a listened slot arrives, which
\* lets its goroutine go on, and the slot is dequeued
LoopRecvBody(j) ==
    /\ loop = "run"
    /\ taken = 0
    /\ j \in Selectable(futures)
    /\ LET i == futures[j]
       IN  /\ tasks[i].pc = "deliver"
           /\ taken' = i
           /\ tasks' = [tasks EXCEPT ![i].pc = AfterSend(tasks[i])]
    /\ futures' = SubSeq(futures, 1, j - 1) \o SubSeq(futures, j + 1, Len(futures))
    /\ UNCHANGED <<config, tests, todo, fs, out, written, outClosed, loop, builders,
                   publishers, sm, notifier, failures>>

\* if ok: out.Write of the body the loop holds
LoopWrite ==
    /\ loop = "run"
    /\ taken # 0
    /\ out' = outWrite(out, tasks[taken].b)
    /\ written' = Append(written, taken)
    /\ taken' = 0
    /\ UNCHANGED <<config, tests, todo, fs, futures, tasks, outClosed, loop, builders,
                   publishers, sm, notifier, failures>>

\* case b, ok := <-bf with !ok: a listened slot was closed without a body
LoopRecvNothing(j) ==
    /\ loop = "run"
    /\ taken = 0
    /\ j \in Selectable(futures)
    /\ tasks[futures[j]].pc = "closed"
    /\ futures' = SubSeq(futures, 1, j - 1) \o SubSeq(futures, j + 1, Len(futures))
    /\ UNCHANGED <<config, tests, todo, fs, tasks, sink, loop, builders, publishers,
                   sm, notifier, failures>>

\* break, then the deferred out.Close()
LoopBreak ==
    /\ loop = "run"
    /\ taken = 0
    /\ Drained(futures, fs)
    /\ loop' = "returned"
    /\ outClosed' = TRUE
    /\ UNCHANGED <<config, tests, todo, fs, futures, tasks, out, written, taken,
                   builders, publishers, sm, notifier, failures>>

\* case err := <-errCh: the notifier reports an error, which is fatal
LoopRecvErr ==
    /\ loop = "run"
    /\ taken = 0
    /\ watch
    /\ failures < MaxFailures
    /\ loop' = "fatal"
    /\ failures' = failures + 1
    /\ UNCHANGED <<config, tests, todo, fs, futures, tasks, sink, builders,
                   publishers, sm, notifier>>

\* graph.New returns an error before the loop is entered, which is fatal
GraphNewFailed ==
    /\ loop = "run"
    /\ watch
    /\ tasks = <<>>
    /\ notifs = 0
    /\ failures < MaxFailures
    /\ loop' = "fatal"
    /\ failures' = failures + 1
    /\ UNCHANGED <<config, tests, todo, fs, futures, tasks, sink, builders,
                   publishers, sm, notifier>>

\* ------------------------------------------------------------------------
\* The callback handed to graph.New
\* ------------------------------------------------------------------------
\* the notifier calls back with the affected import paths ss, in a run of
\* at most n notifications
NotifyWithin(ss, n) ==
    /\ loop = "run"
    /\ watch
    /\ cb.phase = "idle"
    /\ notifs < n
    /\ ss # {}
    /\ ss \subseteq graph
    /\ notifs' = notifs + 1
    /\ cb' = [IdleCb EXCEPT !.phase = "scan", !.S = ss, !.start = DOMAIN sm,
                            !.mark = Len(futs), !.n = notifs + 1]
    /\ UNCHANGED <<config, tests, todo, fs, futures, tasks, sink, loop, builders,
                   publishers, sm, graph, failures>>

Notify(ss) == NotifyWithin(ss, MaxNotify)

\* sm.Range calls the function for a key it has not visited yet
CbVisit(k) ==
    /\ loop = "run"
    /\ cb.phase = "scan"
    /\ cb.key = NoKey
    /\ k \in DOMAIN sm \ cb.visited
    /\ cb' = [cb EXCEPT !.key = k, !.value = sm[k], !.idx = 1,
                        !.visited = @ \cup {k}]
    /\ UNCHANGED <<config, tests, todo, fs, futures, tasks, sink, loop, builders,
                   publishers, sm, graph, notifs, failures>>

\* the positions from idx on of value that hold an affected import path
Hits(value, ss, idx) == {j \in idx..Len(value) : value[j] \in ss}

\* for _, ip := range value: up to the next affected ip, which is
\* invalidated, the filename then waits to be sent; or to the end of value
CbStep ==
    /\ loop = "run"
    /\ cb.phase = "scan"
    /\ cb.key # NoKey
    /\ LET hits == Hits(cb.value, cb.S, cb.idx)
       IN  IF hits = {}
           THEN /\ cb' = [cb EXCEPT !.key = NoKey, !.value = <<>>, !.idx = 0]
                /\ cache' = cache
           ELSE /\ cb' = [cb EXCEPT !.phase = "send", !.idx = Min(hits)]
                /\ cache' = Invalidate(cache, cb.value[Min(hits)])
    /\ UNCHANGED <<config, tests, todo, fs, futures, tasks, sink, loop, futs,
                   publishers, sm, graph, notifs, failures>>

\* sm.Range is over: every key present when it began was visited
CbReturn ==
    /\ loop = "run"
    /\ cb.phase = "scan"
    /\ cb.key = NoKey
    /\ cb.start \subseteq cb.visited
    /\ cb' = [IdleCb EXCEPT !.n = cb.n]
    /\ UNCHANGED <<config, tests, todo, fs, futures, tasks, sink, loop, builders,
                   publishers, sm, graph, notifs, failures>>

\* ------------------------------------------------------------------------
\* Specification
\* ------------------------------------------------------------------------
Slots == 1..MaxSlots
FutIds == 1..(2 * MaxSlots)

Next ==
    \/ LoopRecvFile
    \/ LoopRecvResent
    \/ LoopRecvClosed
    \/ \E j \in Slots : LoopRecvBody(j)
    \/ LoopWrite
    \/ \E j \in Slots : LoopRecvNothing(j)
    \/ LoopBreak
    \/ LoopRecvErr
    \/ GraphNewFailed
    \/ \E i \in Slots : TaskStart(i)
    \/ \E i \in Slots, r \in Supported : TaskBuild(i, r)
    \/ \E i \in Slots, r \in Supported : TaskBuildFailed(i, r)
    \/ \E i \in Slots, r \in Supported : TaskPublish(i, r)
    \/ \E r \in Supported, ok \in BOOLEAN : PublishFinish(r, ok)
    \/ \E i \in Slots, r \in Supported : TaskPublished(i, r)
    \/ \E i \in Slots : TaskFinish(i)
    \/ \E i \in Slots, ok \in BOOLEAN : TaskAdd(i, ok)
    \/ \E k \in FutIds : BuildStart(k)
    \/ \E k \in FutIds, ok \in BOOLEAN : BuildFinish(k, ok)
    \/ \E ss \in SUBSET Supported : Notify(ss)
    \/ \E k \in Files : CbVisit(k)
    \/ CbStep
    \/ CbReturn

Spec == Init /\ [][Next]_vars

\* the runs explored for the progress properties: no selector, and under
\* --watch either the file with two references, or two files in strict mode
FairInit ==
    /\ Init
    /\ ~selector
    /\ watch => IF Len(todo) = 1 THEN ~strict /\ todo[1] = "f1" ELSE TRUE

\* the Go scheduler never leaves every runnable goroutine waiting
FairSpec == FairInit /\ [][Next]_vars /\ WF_vars(Next)

\* ------------------------------------------------------------------------
\* Runs under --watch with a second notification
\* ------------------------------------------------------------------------
\* the runs explored: --watch without strict mode and selector, and the
\* file with one supported reference
CacheInit ==
    /\ watch = TRUE
    /\ strict = FALSE
    /\ selector = FALSE
    /\ todo = <<"f3">>
    /\ Idle

\* the steps of a run under --watch, in which the filename channel is never
\* closed and the loop never left
CacheNext ==
    \/ LoopRecvFile
    \/ LoopRecvResent
    \/ \E j \in Slots : LoopRecvBody(j)
    \/ LoopWrite
    \/ \E j \in Slots : LoopRecvNothing(j)
    \/ LoopRecvErr
    \/ GraphNewFailed
    \/ \E i \in Slots : TaskStart(i)
    \/ \E i \in Slots, r \in Supported : TaskBuild(i, r)
    \/ \E i \in Slots, r \in Supported : TaskBuildFailed(i, r)
    \/ \E i \in Slots, r \in Supported : TaskPublish(i, r)
    \/ \E r \in Supported, ok \in BOOLEAN : PublishFinish(r, ok)
    \/ \E i \in Slots, r \in Supported : TaskPublished(i, r)
    \/ \E i \in Slots : TaskFinish(i)
    \/ \E i \in Slots, ok \in BOOLEAN : TaskAdd(i, ok)
    \/ \E k \in FutIds : BuildStart(k)
    \/ \E k \in FutIds, ok \in BOOLEAN : BuildFinish(k, ok)
    \/ \E ss \in SUBSET Supported : NotifyWithin(ss, MaxRenotify)
    \/ \E k \in Files : CbVisit(k)
    \/ CbStep
    \/ CbReturn

CacheSpec == CacheInit /\ [][CacheNext]_vars

\* ------------------------------------------------------------------------
\* create and apply: the pipe to kubectl is primed, then resolved into
\* ------------------------------------------------------------------------
\* for i := 0; i < 1000; i++
PrimeWrites == 1000

\* one priming write
Separator == << <<"---\n">> >>

\* a goroutine that does not wait for the priming loop to end
PrimedEarly(o) == TRUE

\* the priming loop has run to its end
Primed(o) == Len(o) = PrimeWrites

\* stdin.Write([]byte("---\n"))
Prime ==
    /\ loop = "priming"
    /\ Len(out) < PrimeWrites
    /\ out' = out \o Separator
    /\ UNCHANGED <<config, tests, todo, fs, futures, tasks, written, outClosed, taken,
                   loop, builders, publishers, sm, notifier, failures>>

\* once primed: resolveFilesToWriter(ctx, builder, publisher, fo, so, sto, stdin)
StartResolve ==
    /\ loop = "priming"
    /\ Primed(out)
    /\ loop' = "run"
    /\ UNCHANGED <<config, tests, todo, fs, futures, tasks, sink, builders, publishers,
                   sm, notifier, failures>>

\* the runs explored: one-shot, without strict mode and selector
PipeInit ==
    /\ watch = FALSE
    /\ strict = FALSE
    /\ selector = FALSE
    /\ todo \in FileSeqs(MaxFiles)
    /\ fs = "open"
    /\ futures = <<>>
    /\ tasks = <<>>
    /\ out = <<>>
    /\ written = <<>>
    /\ outClosed = FALSE
    /\ taken = 0
    /\ loop = "priming"
    /\ cache = [r \in Supported |-> 0]
    /\ futs = <<>>
    /\ pubCache = [r \in Supported |-> NoEntry]
    /\ pubCalls = [r \in Supported |-> 0]
    /\ sm = [f \in {} |-> <<>>]
    /\ graph = {}
    /\ cb = IdleCb
    /\ notifs = 0
    /\ failures = 0
    /\ giveIp = <<>>
    /\ sr = <<>>
    /\ row = 0

PipeNext ==
    \/ Prime
    \/ StartResolve
    \/ LoopRecvFile
    \/ LoopRecvClosed
    \/ \E j \in Slots : LoopRecvBody(j)
    \/ LoopWrite
    \/ LoopBreak
    \/ \E i \in Slots : TaskStart(i)
    \/ \E i \in Slots, r \in Supported : TaskBuild(i, r)
    \/ \E i \in Slots, r \in Supported : TaskBuildFailed(i, r)
    \/ \E i \in Slots, r \in Supported : TaskPublish(i, r)
    \/ \E r \in Supported, ok \in BOOLEAN : PublishFinish(r, ok)
    \/ \E i \in Slots, r \in Supported : TaskPublished(i, r)
    \/ \E i \in Slots : TaskFinish(i)
    \/ \E k \in FutIds : BuildStart(k)
    \/ \E k \in FutIds, ok \in BOOLEAN : BuildFinish(k, ok)

PipeSpec == PipeInit /\ [][PipeNext]_vars

\* ------------------------------------------------------------------------
\* The table-driven tests of IsSupportedReference
\* ------------------------------------------------------------------------
\* import paths that name no package the builder could build: one that does
\* not exist, one with neither main nor tests, one outside the module
Unbuildable == {<<"x">>, <<"n">>, <<"o">>}

\* the references a row of the table can give: an import path, bare or
\* behind one of the two schemes
TestRefs ==
    {pre \o path : pre \in {<<>>, <<koPrefix>>, <<koTestPrefix>>},
                   path \in Supported \cup TestOnly \cup Unbuildable}

\* the first row: giveBuilder is ng or ngstrict, giveIp a reference
TestInit ==
    /\ watch = FALSE
    /\ selector = FALSE
    /\ strict \in BOOLEAN
    /\ todo = <<>>
    /\ fs = "open"
    /\ futures = <<>>
    /\ tasks = <<>>
    /\ out = <<>>
    /\ written = <<>>
    /\ outClosed = FALSE
    /\ taken = 0
    /\ loop = "run"
    /\ cache = [r \in Supported |-> 0]
    /\ futs = <<>>
    /\ pubCache = [r \in Supported |-> NoEntry]
    /\ pubCalls = [r \in Supported |-> 0]
    /\ sm = [f \in {} |-> <<>>]
    /\ graph = {}
    /\ cb = IdleCb
    /\ notifs = 0
    /\ failures = 0
    /\ giveIp \in TestRefs
    /\ sr = <<>>
    /\ row = 1

\* t.Run of a row: ts.giveBuilder.IsSupportedReference(ip)
TestRun ==
    /\ row > 0
    /\ sr = <<>>
    /\ sr' = <<IsSupportedReference(strict, giveIp)>>
    /\ UNCHANGED <<config, todo, fs, futures, tasks, sink, loop, builders,
                   publishers, sm, notifier, failures, giveIp, row>>

\* the loop over the table goes on to the next row
TestNextRow ==
    /\ row > 0
    /\ row < MaxRows
    /\ sr # <<>>
    /\ strict' \in BOOLEAN
    /\ giveIp' \in TestRefs
    /\ sr' = <<>>
    /\ row' = row + 1
    /\ UNCHANGED <<watch, selector, todo, fs, futures, tasks, sink, loop,
                   builders, publishers, sm, notifier, failures>>

TestNext ==
    \/ TestRun
    \/ TestNextRow

TestSpec == TestInit /\ [][TestNext]_vars

\* ------------------------------------------------------------------------
\* Properties
\* ------------------------------------------------------------------------
TaskIds == 1..Len(tasks)

\* the reference text of a scalar, and its bare reference
TextOf(node) == TrimSpace(node.Value)
PathOf(node) == TrimPrefix(TrimSpace(node.Value), koPrefix)

\* slot i has produced a body: resolveFile returned without error
HasBody(i) == tasks[i].pc \in {"deliver", "adding", "done"}

\* the number of times x occurs in the sequence s
Count(s, x) == Cardinality({j \in 1..Len(s) : s[j] = x})

\* the documents of an encoded body: the lines between the "---" lines
RECURSIVE SplitDocs(_)
SplitDocs(b) ==
    IF b = <<>> THEN <<>>
    ELSE LET seps == {k \in 1..Len(b) : b[k] = <<"---">>}
         IN  IF seps = {} THEN <<b>>
             ELSE LET k == CHOOSE x \in seps : \A y \in seps : x <= y
                  IN  <<SubSeq(b, 1, k - 1)>> \o SplitDocs(SubSeq(b, k + 1, Len(b)))

\* the bodies of the given slots, each followed by the delimiter
RECURSIVE Bodies(_)
Bodies(is) ==
    IF is = <<>> THEN <<>>
    ELSE tasks[Head(is)].b \o Delimiter \o Bodies(Tail(is))

\* C1: the sink holds the bodies in the order the filenames were received: the
\* slots are written in increasing arrival order, whatever order the
\* resolutions finished in, and the sink's bytes are those bodies in that order.
C1_ArrivalOrder ==
    /\ \A p, q \in 1..Len(written) : p < q => written[p] < written[q]
    /\ out = Bodies(written)

\* C1 witness: a later file was ready while an earlier one was still being
\* resolved, and the earlier one was nevertheless written first.
C1_Witness ==
    /\ Len(tasks) >= 3
    /\ written = <<1>>
    /\ futures = <<2, 3>>
    /\ tasks[2].pc = "resolving"
    /\ tasks[3].pc = "deliver"

\* C2: while nothing was invalidated, K callers of Build for one bare
\* reference share one future and the underlying builder gets one Build call.
C2_OneBuildPerRef ==
    notifs = 0 =>
        \A r \in Supported :
            LET ids == {k \in 1..Len(futs) : futs[k].ref = r}
                callers == {i \in TaskIds : r \in DOMAIN tasks[i].refs /\ tasks[i].fut[r] # 0}
            IN  /\ Cardinality(ids) <= 1
                /\ BuildCalls(r) <= 1
                /\ callers # {} =>
                      /\ ids = {cache[r]}
                      /\ \A i \in callers : tasks[i].fut[r] = cache[r]
                      /\ futs[cache[r]].state # "pending" => BuildCalls(r) = 1

\* C2 witness: two resolutions of different files wait on the same running build.
C2_Witness ==
    /\ notifs = 0
    /\ \E i, j \in TaskIds, r \in Supported :
          /\ i # j
          /\ tasks[i].f # tasks[j].f
          /\ r \in DOMAIN tasks[i].refs /\ r \in DOMAIN tasks[j].refs
          /\ tasks[i].sub[r] = "wait" /\ tasks[j].sub[r] = "wait"
          /\ tasks[i].fut[r] = tasks[j].fut[r]
          /\ futs[tasks[i].fut[r]].state = "building"

\* C3: a resolution started by a re-sent filename never obtains, for an
\* affected reference of its file, a future created before the notification.
C3_NoStaleFuture ==
    \A i \in TaskIds :
        tasks[i].via > 0 =>
            \A r \in tasks[i].affected \cap DOMAIN tasks[i].refs :
                tasks[i].fut[r] # 0 => tasks[i].fut[r] > tasks[i].mark

\* the input documents of slot i
InDocs(i) == FileDocs(tasks[i].f)

\* the positions of the input documents that match the selector
Matching(docs) == {d \in 1..Len(docs) : MatchesSelector(docs[d])}

\* C4: with a selector, every document that does not match it is in the
\* output of resolveFile at its original position among the documents, with
\* its content unchanged.
C4_NonMatchingKept ==
    \A i \in TaskIds :
        (selector /\ HasBody(i)) =>
            LET outDocs == SplitDocs(tasks[i].b)
            IN  /\ Len(outDocs) = Len(InDocs(i))
                /\ \A d \in 1..Len(InDocs(i)) \ Matching(InDocs(i)) :
                      outDocs[d] = EncodeDoc(InDocs(i)[d])

\* the occurrences of bare reference r in the documents docs: the string
\* scalars the walker yields whose trimmed, unprefixed value is r
Occurrences(docs, r, isStrict) ==
    {h \in {<<d, n>> : d \in 1..Len(docs), n \in 1..4} :
        /\ h[2] <= Len(docs[h[1]].nodes)
        /\ StringValue(NodeAt(docs, h))
        /\ isStrict => HasPrefix(NodeAt(docs, h).Value, koPrefix)
        /\ PathOf(NodeAt(docs, h)) = r}

\* the string scalars of docs that name bare reference r: the trimmed value
\* without ko:// is r, and in strict mode the trimmed value begins with ko://
Mentions(docs, r, isStrict) ==
    {h \in {<<d, n>> : d \in 1..Len(docs), n \in 1..4} :
        /\ h[2] <= Len(docs[h[1]].nodes)
        /\ StringValue(NodeAt(docs, h))
        /\ isStrict => HasPrefix(TrimSpace(NodeAt(docs, h).Value), koPrefix)
        /\ PathOf(NodeAt(docs, h)) = r}

\* C5: in one batch, a bare reference with N occurrences (with or without
\* ko://, with or without surrounding whitespace) is built once, published
\* at most once, and all N occurrences get one digest.
C5_OncePerBatch ==
    \A i \in TaskIds :
        \A r \in Supported :
            LET docs == SelectDocs(InDocs(i), selector)
                occ == Mentions(docs, r, strict)
            IN  /\ Count(tasks[i].ImportPaths, r) <= 1
                /\ Count(tasks[i].published, r) <= 1
                /\ (HasBody(i) /\ occ # {}) =>
                      /\ Count(tasks[i].ImportPaths, r) = 1
                      /\ tasks[i].digest[r] # NoDigest
                      /\ \A h \in occ :
                            SplitDocs(tasks[i].b)[h[1]][h[2]] = tasks[i].digest[r]

\* C6: in strict mode a batch with an unsupported ko:// reference fails with
\* an error naming the prefixed reference; nothing is built, published,
\* rewritten or written for it.
C6_StrictFailsBatch ==
    \A i \in TaskIds :
        LET docs == SelectDocs(InDocs(i), selector)
            bad == {h \in {<<d, n>> : d \in 1..Len(docs), n \in 1..4} :
                       /\ h[2] <= Len(docs[h[1]].nodes)
                       /\ StringValue(NodeAt(docs, h))
                       /\ HasPrefix(NodeAt(docs, h).Value, koPrefix)
                       /\ ~IsSupportedReference(strict, PathOf(NodeAt(docs, h)))}
        IN  (strict /\ bad # {} /\ tasks[i].pc # "start") =>
                /\ tasks[i].pc = "closed"
                /\ tasks[i].err \in {<<"strict", TextOf(NodeAt(docs, h))>> : h \in bad}
                /\ HasPrefix(tasks[i].err[2], koPrefix)
                /\ tasks[i].ImportPaths = <<>>
                /\ tasks[i].published = <<>>
                /\ tasks[i].b = <<>>
                /\ i \notin Range(written)

\* C6 witness: under --watch the failed batch was dequeued and the next file
\* was written.
C6_Witness ==
    /\ strict
    /\ Len(tasks) >= 2
    /\ tasks[1].pc = "closed"
    /\ tasks[1].err = <<"strict", <<"ko://", "x">>>>
    /\ written = <<2>>

\* C7 (state part): the loop has returned only after the channel was closed
\* and the FIFO was drained with every body written, and it then closed the sink.
C7_Returned ==
    /\ loop = "returned" =>
          /\ fs = "nil"
          /\ futures = <<>>
          /\ outClosed
          /\ \A i \in TaskIds : tasks[i].pc = "done" /\ i \in Range(written)
    /\ outClosed => loop = "returned"
    /\ fs = "nil" => todo = <<>>

\* C7: once the filename channel is closed no filename is accepted, the loop
\* drains the FIFO and then returns and closes the sink (or the run ends
\* fatally); it is never back with a future left in the FIFO.
C7_DrainThenReturn ==
    /\ []C7_Returned
    /\ [][fs = "nil" => Len(tasks') = Len(tasks)]_vars
    /\ (fs = "nil") ~> (loop # "run")

\* C7 witness: the channel is closed while two futures are still in the FIFO.
C7_Witness ==
    /\ fs = "nil"
    /\ Len(futures) = 2
    /\ loop = "run"
    /\ tasks[2].pc = "deliver"

OneShotFailed == ~watch /\ \E i \in TaskIds : tasks[i].pc = "closed"

\* C8: without --watch a resolver error is fatal: from the error on nothing
\* is written, neither the failed file nor any file not written yet.
C8_FatalOneShot ==
    [][ /\ OneShotFailed => (out' = out /\ written' = written)
        /\ OneShotFailed' =>
              /\ loop' = "fatal"
              /\ \A i \in 1..Len(tasks') : tasks'[i].pc = "closed" => i \notin Range(written') ]_vars

\* C8 witness: the first file failed while the body of the second was ready.
C8_Witness ==
    /\ ~watch
    /\ loop = "fatal"
    /\ Len(tasks) = 2
    /\ tasks[1].pc = "closed"
    /\ tasks[2].pc = "deliver"
    /\ written = <<>>

\* C9 (state part): under --watch a slot whose resolution failed is closed
\* without a body and nothing of it is taken or written, and a slot that
\* left the FIFO is a failed one or one whose body the loop took.
C9_FailedSlotEmpty ==
    watch =>
        \A i \in TaskIds :
            /\ tasks[i].pc = "closed" =>
                  /\ tasks[i].err # NoError
                  /\ tasks[i].b = <<>>
                  /\ i \notin Range(written)
                  /\ i # taken
            /\ i \notin Range(futures) =>
                  \/ tasks[i].pc = "closed"
                  \/ tasks[i].pc \in {"adding", "done"} /\ (i \in Range(written) \/ i = taken)

\* slot i exists and its resolution has produced a body
Produced(i) == i \in 1..Len(tasks) /\ tasks[i].pc \in {"deliver", "adding", "done"}

\* C9: under --watch the step in which a resolution fails leaves the loop
\* running, and the run ends only in a step that is no step of a resolver
\* (an error of the notifier); short of that every slot, before or after the
\* failed one, leaves the FIFO, the failed one with nothing written, and
\* every body produced is written.
C9_WatchSurvivesError ==
    /\ []C9_FailedSlotEmpty
    /\ [][ watch =>
              /\ \A i \in TaskIds :
                    (tasks[i].pc # "closed" /\ tasks'[i].pc = "closed") =>
                        (loop = "run" /\ loop' = "run")
              /\ loop' # loop =>
                    \A i \in TaskIds :
                        tasks'[i].pc = tasks[i].pc /\ tasks'[i].err = tasks[i].err ]_vars
    /\ \A i \in Slots :
          (watch /\ i \in Range(futures)) ~> (i \notin Range(futures) \/ loop = "fatal")
    /\ \A i \in Slots :
          (watch /\ Produced(i)) ~> (i \in Range(written) \/ loop = "fatal")

\* C9 witness: the first file failed, the second was written, and a file
\* re-sent by a later notification was written too.
C9_Witness ==
    /\ watch
    /\ loop = "run"
    /\ Len(tasks) = 3
    /\ tasks[1].pc = "closed"
    /\ tasks[3].via = 1
    /\ written = <<2, 3>>

\* C10: in a batch, from its first Build or Publish error on no sibling
\* goroutine calls Build or Publish any more, and the batch keeps that error.
C10_SiblingsCancelled ==
    [][ \A i \in TaskIds :
            (tasks[i].pc = "resolving" /\ tasks[i].err # NoError) =>
                /\ tasks'[i].ImportPaths = tasks[i].ImportPaths
                /\ tasks'[i].published = tasks[i].published
                /\ tasks'[i].err = tasks[i].err ]_vars

\* C11: when a Build or Publish of a batch fails, ImageReferences returns an
\* error and no scalar of the batch holds a digest: every document is as it
\* was parsed, also where the node's own reference was built and published,
\* and the batch yields no body.
C11_PartialDiscarded ==
    \A i \in TaskIds :
        LET failed == {r \in DOMAIN tasks[i].refs : tasks[i].sub[r] = "err"}
        IN  (failed # {} /\ tasks[i].pc \notin {"start", "resolving"}) =>
                /\ tasks[i].pc = "closed"
                /\ tasks[i].err \in {<<"build", r>> : r \in failed} \cup
                                   {<<"publish", r>> : r \in failed}
                /\ tasks[i].docs = SelectDocs(InDocs(i), selector)
                /\ tasks[i].b = <<>>
                /\ i \notin Range(written)

\* C11 witness: a batch failed on one reference after another reference of it
\* was built and published.
C11_Witness ==
    \E i \in TaskIds :
        /\ tasks[i].pc = "closed"
        /\ \E r, q \in DOMAIN tasks[i].refs :
              /\ tasks[i].sub[r] = "err"
              /\ tasks[i].sub[q] = "ok"
              /\ tasks[i].digest[q] # NoDigest
              /\ Occurrences(tasks[i].docs, q, strict) # {}

\* task i calls builder.Build(r) in this step
BuildCall(i, r) ==
    /\ i \in TaskIds
    /\ r \in DOMAIN tasks[i].refs
    /\ tasks[i].sub[r] = "go"
    /\ tasks'[i].sub[r] = "wait"

\* the callback calls builder.Invalidate(r) in this step
Invalidated(r) ==
    /\ cb.phase = "scan"
    /\ cb'.phase = "send"
    /\ cb'.value[cb'.idx] = r

\* C12: Invalidate(r) leaves r without a future whatever state its future was
\* in; r then stays without one until the next Build(r), which creates a new
\* future, handed to the underlying builder, and no Build(r) is ever given a
\* future that was invalidated.
C12_InvalidateThenBuild ==
    [][ \A r \in Supported :
          /\ Invalidated(r) => cache'[r] = 0
          /\ cache'[r] \in {cache[r], 0, Len(futs) + 1}
          /\ (cache[r] = 0 /\ cache'[r] # 0) => \E i \in TaskIds : BuildCall(i, r)
          /\ \A i \in TaskIds :
                BuildCall(i, r) =>
                    /\ tasks'[i].fut[r] = cache'[r]
                    /\ cache[r] = 0 =>
                          /\ cache'[r] = Len(futs) + 1
                          /\ Len(futs') = Len(futs) + 1
                          /\ futs'[Len(futs) + 1].ref = r
                          /\ futs'[Len(futs) + 1].state = "pending"
                          /\ \A k \in 1..Len(futs) : futs'[k] = futs[k] ]_vars

\* C12 witness: the first build of a reference succeeded and was invalidated,
\* the second failed and was invalidated by a second notification, and the
\* next Build call got a third build that succeeded.
C12_Witness ==
    \E i \in TaskIds, r \in Supported :
        /\ notifs = 2
        /\ r \in DOMAIN tasks[i].refs
        /\ tasks[i].fut[r] = 3
        /\ futs[1].ref = r /\ futs[1].state = "ready"
        /\ futs[2].ref = r /\ futs[2].state = "failed"
        /\ futs[3].ref = r /\ futs[3].state = "ready"
        /\ futs[3].gen = 3

\* the futures ever created for reference r
FuturesOf(fu, r) == {k \in 1..Len(fu) : fu[k].ref = r}

\* C13: while the future of r is failed and r is not invalidated, the failure
\* stays cached: a Build(r) call gets that failed future and no future is
\* created for r, so that no such call reaches the underlying builder.
C13_FailureCached ==
    [][ \A r \in Supported :
          (cache[r] # 0 /\ futs[cache[r]].state = "failed" /\ ~Invalidated(r)) =>
                /\ cache'[r] = cache[r]
                /\ futs'[cache[r]] = futs[cache[r]]
                /\ FuturesOf(futs', r) = FuturesOf(futs, r)
                /\ \A i \in TaskIds :
                      BuildCall(i, r) => tasks'[i].fut[r] = cache[r] ]_vars

\* C13 witness: one resolution has failed on the build of r, which ran once,
\* and another resolution holds the same failed future.
C13_Witness ==
    \E i, j \in TaskIds, r \in Supported :
        /\ i # j
        /\ notifs = 0
        /\ tasks[j].pc = "closed" /\ tasks[j].err = <<"build", r>>
        /\ r \in DOMAIN tasks[i].refs
        /\ tasks[i].sub[r] = "wait"
        /\ tasks[i].fut[r] = tasks[j].fut[r]
        /\ futs[tasks[i].fut[r]].state = "failed"
        /\ Cardinality(FuturesOf(futs, r)) = 1

\* task i calls publisher.Publish(img, r) in this step
PublishCall(i, r) ==
    /\ i \in TaskIds
    /\ r \in DOMAIN tasks[i].refs
    /\ tasks[i].sub[r] = "wait"
    /\ tasks'[i].published = Append(tasks[i].published, r)

\* C14 (state part): the external publisher was contacted at most once for a
\* reference, a digest is stored only after that contact, and every Publish
\* that returned a digest returned the stored one.
C14_OneContact ==
    \A r \in Supported :
        /\ pubCalls[r] <= 1
        /\ Stored(pubCache, r) # NoDigest => pubCalls[r] = 1
        /\ \A i \in TaskIds :
              (r \in DOMAIN tasks[i].refs /\ tasks[i].sub[r] = "ok") =>
                  /\ tasks[i].digest[r] # NoDigest
                  /\ tasks[i].digest[r] = Stored(pubCache, r)

\* C14: the caching publisher contacts the external publisher at most once
\* per bare reference over the whole run, also when files that share the
\* reference are resolved at the same time; once the digest of the successful
\* publish is stored it stays, and every Publish for the reference called
\* from then on returns it at once, without contact.
C14_ContactedOnce ==
    /\ []C14_OneContact
    /\ [][ \A r \in Supported :
              Stored(pubCache, r) # NoDigest =>
                  /\ pubCalls'[r] = pubCalls[r]
                  /\ Stored(pubCache', r) = Stored(pubCache, r)
                  /\ \A i \in TaskIds :
                        PublishCall(i, r) =>
                            /\ tasks'[i].sub[r] = "ok"
                            /\ tasks'[i].digest[r] = Stored(pubCache, r) ]_vars

\* C14 witness: two files that share a reference are resolved at the same
\* time; both called Publish before the external publisher had returned, one
\* has the stored digest, the other is about to get it, and the external
\* publisher was contacted once.
C14_Witness ==
    \E i, j \in TaskIds, r \in Supported :
        /\ tasks[i].f # tasks[j].f
        /\ tasks[i].pc = "resolving" /\ tasks[j].pc = "resolving"
        /\ r \in DOMAIN tasks[i].refs /\ r \in DOMAIN tasks[j].refs
        /\ tasks[i].sub[r] = "ok" /\ tasks[j].sub[r] = "publishing"
        /\ tasks[i].digest[r] = Stored(pubCache, r)
        /\ pubCalls[r] = 1

\* the builds the Go builder is running
Running == {k \in 1..Len(futs) : futs[k].state = "building"}

\* C15 (state part): at most ConcurrentBuilds builds run at any instant, and a
\* resolution that has yet to consult IsSupportedReference can do so however
\* many builds are running or queued.
C15_AtMostN ==
    /\ Cardinality(Running) <= ConcurrentBuilds
    /\ \A i \in TaskIds :
          (loop = "run" /\ tasks[i].pc = "start") => ENABLED TaskStart(i)

\* C15: the limiter never has more than its capacity of builds in flight,
\* never holds up IsSupportedReference, and a build that failed is not run
\* again: its future keeps the error as it is.
C15_Limiter ==
    /\ []C15_AtMostN
    /\ [][ \A k \in 1..Len(futs) :
              futs[k].state = "failed" => futs'[k] = futs[k] ]_vars

\* C15 witness: the limiter is full, a build of another reference is queued
\* behind it, and a resolution is about to consult IsSupportedReference.
C15_Witness ==
    /\ Cardinality(Running) = ConcurrentBuilds
    /\ \E k \in 1..Len(futs), j \in Running :
          futs[k].state = "pending" /\ futs[k].ref # futs[j].ref
    /\ \E i \in TaskIds : tasks[i].pc = "start"

\* the node at handle h is one the discover phase records: a string scalar
\* the walker yields whose bare reference is supported
Recorded(docs, h, isStrict) ==
    /\ IsSupportedReference(isStrict, PathOf(NodeAt(docs, h)))
    /\ h \in Occurrences(docs, PathOf(NodeAt(docs, h)), isStrict)

\* C16: when ImageReferences returned without error, every recorded node
\* holds the digest the publisher returned for its bare reference, and every
\* other node, and the shape of every document, is as it was parsed.
C16_Rewritten ==
    \A i \in TaskIds :
        HasBody(i) =>
            LET before == SelectDocs(InDocs(i), selector)
                after == tasks[i].docs
            IN  /\ Len(after) = Len(before)
                /\ \A d \in 1..Len(before) :
                      /\ after[d].label = before[d].label
                      /\ Len(after[d].nodes) = Len(before[d].nodes)
                      /\ \A n \in 1..Len(before[d].nodes) :
                            LET r == PathOf(before[d].nodes[n])
                            IN  /\ after[d].nodes[n].tag = before[d].nodes[n].tag
                                /\ IF Recorded(before, <<d, n>>, strict)
                                   THEN /\ after[d].nodes[n].Value = tasks[i].digest[r]
                                        /\ tasks[i].digest[r] = Stored(pubCache, r)
                                        /\ Stored(pubCache, r) # NoDigest
                                   ELSE after[d].nodes[n].Value = before[d].nodes[n].Value

\* C16 witness: a resolved batch of three documents with recorded nodes of two
\* references next to an unsupported reference, a plain string and a number.
C16_Witness ==
    \E i \in TaskIds :
        /\ HasBody(i)
        /\ Len(tasks[i].docs) = 3
        /\ DOMAIN tasks[i].refs = Supported
        /\ \E d \in 1..3 : \E n \in 1..Len(tasks[i].docs[d].nodes) :
              tasks[i].docs[d].nodes[n].Value = <<"ko://", "x">>
        /\ \E d \in 1..3 : \E n \in 1..Len(tasks[i].docs[d].nodes) :
              ~StringValue(tasks[i].docs[d].nodes[n])

\* the string scalars of docs whose bare reference is not supported
Unsupported(docs) ==
    {h \in {<<d, n>> : d \in 1..Len(docs), n \in 1..4} :
        /\ h[2] <= Len(docs[h[1]].nodes)
        /\ StringValue(NodeAt(docs, h))
        /\ ~IsSupportedReference(strict, PathOf(NodeAt(docs, h)))}

\* C17: without strict mode a string scalar whose bare reference is not
\* supported, prefixed or not, fails nothing, is neither built nor published,
\* and is in the output as it was in the input.
C17_UnsupportedUntouched ==
    \A i \in TaskIds :
        ~strict =>
            LET docs == SelectDocs(InDocs(i), selector)
            IN  /\ tasks[i].err # NoError => tasks[i].err[1] \in {"build", "publish"}
                /\ \A h \in Unsupported(docs) :
                      LET r == PathOf(NodeAt(docs, h))
                      IN  /\ r \notin Range(tasks[i].ImportPaths)
                          /\ r \notin Range(tasks[i].published)
                          /\ r \notin DOMAIN tasks[i].refs
                          /\ \A k \in 1..Len(futs) : futs[k].ref # r
                          /\ HasBody(i) =>
                                /\ NodeAt(tasks[i].docs, h) = NodeAt(docs, h)
                                /\ SplitDocs(tasks[i].b)[h[1]][h[2]] = NodeAt(docs, h).Value

\* C17 witness: a batch resolved without strict mode that holds an
\* unsupported reference with the prefix and one without.
C17_Witness ==
    \E i \in TaskIds :
        /\ ~strict
        /\ HasBody(i)
        /\ LET bad == Unsupported(SelectDocs(InDocs(i), selector))
               docs == SelectDocs(InDocs(i), selector)
           IN  /\ \E h \in bad : HasPrefix(NodeAt(docs, h).Value, koPrefix)
               /\ \E h \in bad : ~HasPrefix(NodeAt(docs, h).Value, koPrefix)

\* the distinct bare references of the batch of slot i
BatchRefs(i) ==
    LET docs == SelectDocs(InDocs(i), selector)
    IN  {r \in Supported : Occurrences(docs, r, strict) # {}}

\* C18: a batch has bytes, in its slot or in the sink, only when the Build and
\* the Publish of every distinct reference of it have returned successfully.
C18_ResolvedBeforeBytes ==
    \A i \in TaskIds :
        (tasks[i].b # <<>> \/ HasBody(i) \/ i \in Range(written)) =>
            \A r \in BatchRefs(i) :
                /\ r \in DOMAIN tasks[i].refs
                /\ tasks[i].sub[r] = "ok"
                /\ tasks[i].fut[r] # 0
                /\ futs[tasks[i].fut[r]].state = "ready"
                /\ r \in Range(tasks[i].published)
                /\ tasks[i].digest[r] # NoDigest

\* C18 witness: the body of a batch with two references waits in its slot
\* while another batch is still building.
C18_Witness ==
    \E i, j \in TaskIds :
        /\ tasks[i].pc = "deliver"
        /\ Cardinality(BatchRefs(i)) = 2
        /\ tasks[j].pc = "resolving"
        /\ \E r \in DOMAIN tasks[j].refs : tasks[j].sub[r] = "wait"

\* the bytes due for the slots from i on: the encoded documents and one
\* delimiter line for each slot whose body the loop has written, nothing
\* for the others
RECURSIVE SinkFrom(_)
SinkFrom(i) ==
    IF i > Len(tasks) THEN <<>>
    ELSE (IF i \in Range(written)
          THEN Encode(tasks[i].docs) \o << <<"\n---\n">> >>
          ELSE <<>>) \o SinkFrom(i + 1)

\* C19: the sink holds, in arrival order, the resolved bytes of every slot
\* whose body the loop has written, each followed by one delimiter; no slot
\* is written twice, the slots written are those whose body the loop took,
\* but for the one it holds, and a slot whose resolution failed adds nothing.
C19_SinkExact ==
    /\ out = SinkFrom(1)
    /\ \A p, q \in 1..Len(written) : p # q => written[p] # written[q]
    /\ Range(written) = {i \in TaskIds : tasks[i].pc \in {"adding", "done"}} \ {taken}
    /\ taken # 0 => (taken \in TaskIds /\ tasks[taken].pc \in {"adding", "done"})
    /\ \A i \in TaskIds :
          /\ tasks[i].err # NoError =>
                (tasks[i].b = <<>> /\ i \notin Range(written) /\ i # taken)
          /\ i \in Range(written) =>
                (i \notin Range(futures) /\ tasks[i].b = Encode(tasks[i].docs))
    /\ loop = "returned" => Range(written) = TaskIds

\* C19 witness: of two received filenames the first failed and left the FIFO,
\* and the sink holds the body of the second followed by the delimiter.
C19_Witness ==
    /\ Len(tasks) = 2
    /\ tasks[1].pc = "closed"
    /\ tasks[2].pc = "done"
    /\ written = <<2>>
    /\ futures = <<>>
    /\ tasks[2].b # <<>>
    /\ out = tasks[2].b \o << <<"\n---\n">> >>

\* the slots opened by filename f re-sent on notification n
Resent(n, f) == {i \in TaskIds : tasks[i].via = n /\ tasks[i].f = f}

\* C20: on one notification a file is re-sent at most once, and only when
\* one of its recorded references is affected and each of its affected
\* references has been invalidated since the notification.
C20_ResentOnceAfterInvalidate ==
    /\ \A n \in 1..notifs : \A f \in Files : Cardinality(Resent(n, f)) <= 1
    /\ cb.phase = "send" =>
          \A r \in cb.S \cap Range(cb.value) : cache[r] = 0 \/ cache[r] > cb.mark
    /\ \A i \in TaskIds : tasks[i].via > 0 => tasks[i].affected # {}

\* the string scalars of the documents at the positions ds of docs
StringsIn(docs, ds) ==
    {h \in {<<d, n>> : d \in ds, n \in 1..4} :
        h[2] <= Len(docs[h[1]].nodes) /\ StringValue(NodeAt(docs, h))}

\* the bare references that occur in docs only in documents that do not match
OnlyNonMatching(docs) ==
    LET keep == Matching(docs)
        skip == (1..Len(docs)) \ keep
    IN  {PathOf(NodeAt(docs, h)) : h \in StringsIn(docs, skip)} \
            {PathOf(NodeAt(docs, h)) : h \in StringsIn(docs, keep)}

\* C21: with a selector, a reference that occurs only in non-matching
\* documents is never given to IsSupportedReference, Build or Publish, and a
\* strict error never names a reference of a non-matching document only.
C21_NonMatchingNotDiscovered ==
    \A i \in TaskIds :
        selector =>
            /\ \A r \in OnlyNonMatching(InDocs(i)) :
                  /\ r \notin Range(tasks[i].asked)
                  /\ r \notin DOMAIN tasks[i].refs
                  /\ r \notin Range(tasks[i].ImportPaths)
                  /\ r \notin Range(tasks[i].published)
            /\ (tasks[i].err # NoError /\ tasks[i].err[1] = "strict") =>
                  TrimPrefix(tasks[i].err[2], koPrefix) \notin OnlyNonMatching(InDocs(i))

\* C21 witness: in strict mode with a selector a batch was resolved whose
\* non-matching document holds a buildable reference found nowhere else and
\* an unsupported ko:// reference.
C21_Witness ==
    \E i \in TaskIds :
        /\ selector /\ strict /\ HasBody(i)
        /\ tasks[i].asked # <<>>
        /\ \E r \in OnlyNonMatching(InDocs(i)) : IsSupportedReference(strict, r)
        /\ \E d \in (1..Len(InDocs(i))) \ Matching(InDocs(i)) :
              \E n \in 1..Len(InDocs(i)[d].nodes) :
                  /\ HasPrefix(InDocs(i)[d].nodes[n].Value, koPrefix)
                  /\ ~IsSupportedReference(strict, PathOf(InDocs(i)[d].nodes[n]))

\* the import path a reference names: the reference without its scheme
PackageOf(s) ==
    IF HasPrefix(s, koPrefix) \/ HasPrefix(s, koTestPrefix) THEN Tail(s) ELSE s

\* the reference is bare: it has no scheme
IsBareRef(s) == ~HasPrefix(s, koPrefix) /\ ~HasPrefix(s, koTestPrefix)

TrimmedPrefixed(docs) ==
    {h \in StringsIn(docs, 1..Len(docs)) :
        HasPrefix(TrimSpace(NodeAt(docs, h).Value), koPrefix)}

\* C23: in strict mode the walker yields exactly the string scalars whose
\* trimmed value begins with ko://: each of them is put to the strict check,
\* which fails the batch if its reference is not supported and records the
\* node otherwise, and no other node is recorded.
C23_StrictYieldsTrimmed ==
    \A i \in TaskIds :
        (strict /\ tasks[i].pc # "start") =>
            LET docs == SelectDocs(InDocs(i), selector)
                cand == TrimmedPrefixed(docs)
                bad == {h \in cand : ~IsSupportedReference(strict, PathOf(NodeAt(docs, h)))}
            IN  /\ bad # {} =>
                      /\ tasks[i].pc = "closed"
                      /\ tasks[i].err \in {<<"strict", TextOf(NodeAt(docs, h))>> : h \in bad}
                /\ bad = {} =>
                      \A h \in cand :
                          /\ PathOf(NodeAt(docs, h)) \in DOMAIN tasks[i].refs
                          /\ h \in Range(tasks[i].refs[PathOf(NodeAt(docs, h))])
                /\ \A r \in DOMAIN tasks[i].refs :
                      Range(tasks[i].refs[r]) \subseteq cand

\* r is a bare reference: no surrounding whitespace, no ko:// prefix
IsBare(r) == TrimSpace(r) = r /\ ~HasPrefix(r, koPrefix)

\* C24: whatever ImageReferences hands to IsSupportedReference, Build or
\* Publish is the trimmed value of a string scalar of the batch without its
\* ko:// prefix, and the index files every node under that bare reference.
C24_BareReferencesOnly ==
    \A i \in TaskIds :
        LET docs == SelectDocs(InDocs(i), selector)
            paths == {PathOf(NodeAt(docs, h)) : h \in StringsIn(docs, 1..Len(docs))}
            given == Range(tasks[i].asked) \cup DOMAIN tasks[i].refs
                        \cup Range(tasks[i].ImportPaths) \cup Range(tasks[i].published)
        IN  /\ given \subseteq paths
            /\ \A r \in given : IsBare(r)
            /\ Range(tasks[i].ImportPaths) \subseteq DOMAIN tasks[i].refs
            /\ Range(tasks[i].published) \subseteq Range(tasks[i].ImportPaths)
            /\ DOMAIN tasks[i].refs \subseteq Range(tasks[i].asked)
            /\ \A r \in DOMAIN tasks[i].refs :
                  \A h \in Range(tasks[i].refs[r]) : PathOf(NodeAt(docs, h)) = r

\* C24 witness: a batch was resolved in which one bare reference was written
\* with the prefix, with surrounding whitespace, and plain; the builder was
\* asked about it, built it, and the publisher published it.
C24_Witness ==
    \E i \in TaskIds, r \in Supported :
        /\ HasBody(i)
        /\ r \in Range(tasks[i].asked)
        /\ r \in Range(tasks[i].ImportPaths)
        /\ r \in Range(tasks[i].published)
        /\ LET docs == SelectDocs(InDocs(i), selector)
               vals == {NodeAt(docs, h).Value : h \in Range(tasks[i].refs[r])}
           IN  /\ <<"ko://">> \o r \in vals
               /\ <<" ">> \o r \o <<" ">> \in vals
               /\ r \in vals

\* the first n writes to the pipe are priming separators
PrimedPrefix(n) == \A k \in 1..n : out[k] = <<"---\n">>

\* C25 (state part): while the pipe is being primed resolveFilesToWriter has
\* not begun, and once it has, the pipe starts with all the separators.
C25_PrimedFirst ==
    /\ loop = "priming" =>
          /\ Len(out) <= PrimeWrites /\ PrimedPrefix(Len(out))
          /\ tasks = <<>> /\ futures = <<>> /\ written = <<>> /\ fs = "open"
    /\ loop # "priming" =>
          /\ Len(out) >= PrimeWrites /\ PrimedPrefix(PrimeWrites)
          /\ written = <<>> => Len(out) = PrimeWrites

\* C25: every priming separator is in the pipe before resolveFilesToWriter
\* starts, hence before any resolved byte, and the pipe is written by the
\* priming loop and then by the orchestrator loop writing the body it took;
\* no step of a resolver task writes to it.
C25_PrimingThenLoop ==
    /\ []C25_PrimedFirst
    /\ [][ out' # out =>
              \/ loop = "priming" /\ loop' = "priming" /\ out' = out \o << <<"---\n">> >>
              \/ /\ loop = "run" /\ taken # 0
                 /\ tasks' = tasks
                 /\ taken' = 0
                 /\ written' = Append(written, taken)
                 /\ out' = out \o tasks[taken].b \o << <<"\n---\n">> >> ]_vars

\* C25 witness: the primed pipe has received the first body while another
\* file is still being resolved.
C25_Witness ==
    /\ loop = "run"
    /\ Len(out) > PrimeWrites
    /\ PrimedPrefix(PrimeWrites)
    /\ written = <<1>>
    /\ Len(tasks) = 2
    /\ tasks[2].pc = "resolving"

\* a resolver task of slot i waits on a build that has not come back
BlockedOnBuild(i) ==
    /\ tasks[i].pc = "resolving"
    /\ \E r \in DOMAIN tasks[i].refs :
          /\ tasks[i].sub[r] = "wait"
          /\ tasks[i].fut[r] \in 1..Len(futs)
          /\ futs[tasks[i].fut[r]].state \in {"pending", "building"}

\* the resolver task of slot i waits on ch <- b
Delivering(i) == i \in 1..Len(tasks) /\ tasks[i].pc = "deliver"

\* C26: with resolver tasks that terminate nothing waits for ever: every slot
\* in the FIFO is dequeued, and with it a task blocked on the send of its
\* body is served, since such a task has its slot in the FIFO; a callback
\* blocked on the re-send of a filename is received by the loop (as long as
\* the model has a slot left for it), a body the loop took is written, and a
\* one-shot run ends; the only other outcome is the fatal exit of the process.
C26_NothingWaitsForEver ==
    /\ [](\A i \in Slots : Delivering(i) => i \in Range(futures))
    /\ \A i \in Slots :
          (i \in Range(futures)) ~> (i \notin Range(futures) \/ loop = "fatal")
    /\ (cb.phase = "send")
          ~> (cb.phase # "send" \/ Len(tasks) = MaxSlots \/ loop = "fatal")
    /\ (taken # 0) ~> (taken = 0 \/ loop = "fatal")
    /\ (~watch) ~> (loop # "run")

\* C26 witness: the callback waits on the re-send of a filename while the
\* task of the head slot waits on a build.
C26_Witness ==
    /\ cb.phase = "send"
    /\ Len(futures) >= 1
    /\ BlockedOnBuild(Head(futures))
    /\ Len(tasks) < MaxSlots

\* slot i has, or had, its bytes waiting on its channel
Succeeded(t, i) == i \in 1..Len(t) /\ t[i].pc \in {"deliver", "adding", "done"}

\* C27 (state part): a file whose bytes are on their way or delivered has
\* its entry, every entry is the list recorded by a successful resolution of
\* that file, and a re-sent file is one that resolved successfully before.
C27_EntriesOfSuccess ==
    /\ \A i \in 1..Len(tasks) : Succeeded(tasks, i) => tasks[i].f \in DOMAIN sm
    /\ \A f \in DOMAIN sm :
          \E i \in 1..Len(tasks) :
              Succeeded(tasks, i) /\ tasks[i].f = f /\ tasks[i].ImportPaths = sm[f]
    /\ \A i \in 1..Len(tasks) :
          tasks[i].via > 0 =>
              \E j \in 1..(i - 1) : Succeeded(tasks, j) /\ tasks[j].f = tasks[i].f

\* C27: the map changes only in the step in which a resolution succeeds,
\* which stores the recorded list of that file before its bytes wait on the
\* slot; a step in which a resolution fails leaves the map as it was, and
\* no step removes an entry.
C27_StoredOnSuccessOnly ==
    /\ []C27_EntriesOfSuccess
    /\ [][ /\ DOMAIN sm \subseteq DOMAIN sm'
           /\ \A i \in 1..Len(tasks) :
                 /\ (tasks[i].pc # "closed" /\ tasks'[i].pc = "closed") => sm' = sm
                 /\ (~Succeeded(tasks, i) /\ Succeeded(tasks', i)) =>
                       /\ tasks'[i].pc = "deliver"
                       /\ sm' = [f \in DOMAIN sm \cup {tasks[i].f} |->
                                   IF f = tasks[i].f THEN tasks'[i].ImportPaths
                                   ELSE sm[f]]
           /\ sm' # sm =>
                 \E i \in 1..Len(tasks) : ~Succeeded(tasks, i) /\ Succeeded(tasks', i) ]_vars

\* C27 witness: a file resolved and was written, then was re-sent and its
\* second resolution failed; the entry still holds the list of the first.
C27_Witness ==
    /\ watch
    /\ Len(tasks) >= 2
    /\ tasks[1].pc = "done"
    /\ tasks[2].via = 1
    /\ tasks[2].f = tasks[1].f
    /\ tasks[2].pc = "closed"
    /\ tasks[2].ImportPaths # tasks[1].ImportPaths
    /\ sm = [f \in {tasks[1].f} |-> tasks[1].ImportPaths]

\* the import paths recorded by slot i
Paths(i) == {tasks[i].ImportPaths[k] : k \in 1..Len(tasks[i].ImportPaths)}

\* the import paths slot i has registered so far
Registered(i) == {tasks[i].ImportPaths[k] : k \in 1..tasks[i].added}

\* C28 (state part): the notifier knows exactly the import paths registered
\* by the slots so far; a slot has registered one only under --watch, with
\* its resolution succeeded and its body taken from the head of the FIFO.
C28_RegisteredOfTaken ==
    /\ graph = UNION {Registered(i) : i \in 1..Len(tasks)}
    /\ \A i \in 1..Len(tasks) :
          tasks[i].added > 0 =>
              /\ watch
              /\ tasks[i].err = NoError
              /\ tasks[i].pc \in {"adding", "done"}
              /\ i \notin Range(futures)
              /\ i \in Range(written) \/ i = taken
              /\ \A j \in Range(futures) : i < j

\* C28: under --watch the import paths recorded for a file that resolved
\* are registered with the notifier, one by one, some time after the loop
\* took the file's bytes from the head slot, unless the process exits
\* first; a step registers one path of such a file: never before the bytes
\* were taken, never for a failed one.
C28_RegisteredAfterBody ==
    /\ []C28_RegisteredOfTaken
    /\ [][ graph' # graph =>
              \E i \in 1..Len(tasks) :
                  /\ watch
                  /\ tasks[i].err = NoError
                  /\ tasks[i].b # <<>>
                  /\ i \notin Range(futures)
                  /\ i \in Range(written) \/ i = taken
                  /\ \E r \in Paths(i) : graph' = graph \cup {r} ]_vars
    /\ \A i \in Slots :
          (watch /\ i \in 1..Len(tasks) /\ tasks[i].pc \in {"adding", "done"})
              ~> ((i \in 1..Len(tasks) /\ Paths(i) \subseteq graph) \/ loop = "fatal")

\* C28 witness: the first file failed in strict mode after a supported
\* reference was found in it, the second was written, and what is registered
\* is what was recorded for the second.
C28_Witness ==
    /\ watch
    /\ Len(tasks) = 2
    /\ tasks[1].pc = "closed"
    /\ \E k \in 1..Len(tasks[1].asked) : tasks[1].asked[k] \in Supported
    /\ tasks[2].pc = "done"
    /\ written = <<2>>
    /\ graph = Paths(2)
    /\ graph # {}
====
